---- MODULE Spec2Model ----
(***************************************************************************)
(* A model of ugit_diy's repository discovery (paths.find_repo_root) and   *)
(* repository initialization (repo.init_repo) over a small filesystem.     *)
(*                                                                         *)
(* A path is a sequence of component names.  An absolute path is the       *)
(* sequence of its components below the filesystem root (<<>> is "/"); a   *)
(* relative path starts with the component "." and may hold ".." steps.    *)
(* The filesystem fs is a function from the absolute paths that exist to   *)
(* their node (a directory, or a regular file with its text).  Symbolic    *)
(* links are not modelled.  A file's content is the text read_text gives   *)
(* back, as a sequence of pieces in which "\n" is a piece of its own.      *)
(*                                                                         *)
(* Every filesystem call of init_repo is one step of the calling process,  *)
(* so that calls of several processes interleave call by call.             *)
(***************************************************************************)
EXTENDS Naturals, Sequences, FiniteSets, TLC

VARIABLES
    fs,       \* the filesystem: absolute path -> node
    procs,    \* process id -> frame of the call it is running
    pre,      \* process id -> the filesystem when its current call started
    envOps,   \* number of changes made to the tree from outside the program
    inited,   \* the repository paths some init_repo call has returned
    cli,      \* the command-line process: its arguments, position, output, exit code
    lg        \* the logging system of the process and the setup_logging call

vars == <<fs, procs, pre, envOps, inited, cli, lg>>

(***************************************************************************)
(* Bounds of the model.                                                    *)
(***************************************************************************)
MaxDepth == 2       \* depth of the directory tree below "/"
MaxEnvOps == 2      \* changes made to the tree from outside the program

ChainName == "a"    \* the directory name that nests
LeafName == "b"     \* the name of the sibling at every level

RECURSIVE Chain(_)
Chain(n) == IF n = 0 THEN <<>> ELSE Append(Chain(n - 1), ChainName)

\* The directories of the tree: /, /a, /b, /a/a, /a/b, ...  They always exist.
Dirs ==
    {<<>>} \cup {Append(Chain(n - 1), x) : n \in 1..MaxDepth, x \in {ChainName, LeafName}}

(***************************************************************************)
(* Program constants.                                                      *)
(***************************************************************************)
MARKER == "pyproject.toml"
UGIT_DIR == ".ugit"
HEAD_TEXT_NoNewline == <<"ref: refs/heads/main">>
HEAD_TEXT == <<"ref: refs/heads/main", "\n">>
MARKER_TEXT == <<"[project]", "\n", "name='dummy'", "\n">>

(***************************************************************************)
(* Paths (pathlib.Path).                                                   *)
(***************************************************************************)
NoneDir == <<"<None>">>      \* the argument start_dir=None
NoPath == <<"<no path>">>    \* a field that holds no path
CUR == "."
UP == ".."

IsAbsolute(p) == p = <<>> \/ Head(p) \notin {CUR, "<None>", "<no path>"}

Parent(p) == IF p = <<>> THEN <<>> ELSE SubSeq(p, 1, Len(p) - 1)

Join(p, name) == Append(p, name)

\* p is d or an ancestor of d
IsPrefix(p, d) == Len(p) <= Len(d) /\ SubSeq(d, 1, Len(p)) = p

\* Collapse the ".." steps of an absolute path, left to right; ".." at "/" is "/".
RECURSIVE Normalize(_, _)
Normalize(done, rest) ==
    IF rest = <<>> THEN done
    ELSE IF Head(rest) = UP THEN Normalize(Parent(done), Tail(rest))
    ELSE IF Head(rest) = CUR THEN Normalize(done, Tail(rest))
    ELSE Normalize(Append(done, Head(rest)), Tail(rest))

\* Path.resolve(): make the path absolute against cwd and collapse "." and "..".
Resolve(p, cwd) == Normalize(<<>>, IF IsAbsolute(p) THEN p ELSE cwd \o Tail(p))

\* start_dir or Path.cwd()
StartOrCwd(start_dir, cwd) == IF start_dir = NoneDir THEN cwd ELSE start_dir

\* [p, *p.parents]: p, then its ancestors from the nearest up to "/".
RECURSIVE Candidates_RootFirst(_)
Candidates_RootFirst(p) ==
    IF p = <<>> THEN << <<>> >> ELSE Candidates_RootFirst(Parent(p)) \o <<p>>
RECURSIVE Candidates(_)
Candidates(p) == IF p = <<>> THEN << <<>> >> ELSE <<p>> \o Candidates(Parent(p))

(***************************************************************************)
(* Filesystem probes and calls.                                            *)
(***************************************************************************)
DirNode == [type |-> "dir", content |-> <<>>]
FileNode(text) == [type |-> "file", content |-> text]

Exists(f, p) == p \in DOMAIN f
IsFile(f, p) == p \in DOMAIN f /\ f[p].type = "file"
IsDir(f, p) == p \in DOMAIN f /\ f[p].type = "dir"

Remove(f, p) == [q \in DOMAIN f \ {p} |-> f[q]]

\* The paths below p, p excluded.
Under(f, p) == {q \in DOMAIN f : q # p /\ IsPrefix(p, q)}

(***************************************************************************)
(* Exceptions and results.  A message is its fixed text around the path it *)
(* formats.                                                                *)
(***************************************************************************)
NoMsg == [text |-> "", path |-> NoPath, tail |-> ""]

Returned(p) == [kind |-> "ok", value |-> p, repo_path |-> NoPath, msg |-> NoMsg]

RepoRootNotFoundError(start_dir) ==
    [kind |-> "RepoRootNotFoundError", value |-> NoPath, repo_path |-> NoPath,
     msg |-> [text |-> "Could not find an upward 'pyproject.toml' starting from: ",
              path |-> start_dir,
              tail |-> ". Ensure you're running this inside a valid Python project directory."]]

RepoAlreadyExistsError(repo_path) ==
    [kind |-> "RepoAlreadyExistsError", value |-> NoPath, repo_path |-> repo_path,
     msg |-> [text |-> "Repository already exists at: ", path |-> repo_path, tail |-> ""]]

\* A built-in OSError raised by a filesystem call on path p.
OsError(kind, p) ==
    [kind |-> kind, value |-> NoPath, repo_path |-> NoPath,
     msg |-> [text |-> kind, path |-> p, tail |-> ""]]

(***************************************************************************)
(* Filesystem calls.  Each gives the error it raises ("" for none) and the *)
(* filesystem it leaves.                                                   *)
(***************************************************************************)
\* The error of looking up directory d: its first component that is no
\* directory decides (ENOENT when missing, ENOTDIR when a file).
RECURSIVE LookupError(_, _, _)
LookupError(f, d, i) ==
    IF i > Len(d) THEN ""
    ELSE IF IsDir(f, SubSeq(d, 1, i)) THEN LookupError(f, d, i + 1)
    ELSE IF Exists(f, SubSeq(d, 1, i)) THEN "NotADirectoryError"
    ELSE "FileNotFoundError"

\* os.mkdir(p)
OsMkdir(f, p) ==
    LET e == LookupError(f, Parent(p), 1)
    IN  IF e # "" THEN [err |-> e, fs |-> f]
        ELSE IF Exists(f, p) THEN [err |-> "FileExistsError", fs |-> f]
        ELSE [err |-> "", fs |-> f @@ (p :> DirNode)]

\* open(p, "w"): the file is created, or truncated when it exists.
OsOpenW(f, p) ==
    LET e == LookupError(f, Parent(p), 1)
    IN  IF e # "" THEN [err |-> e, fs |-> f]
        ELSE IF IsDir(f, p) THEN [err |-> "IsADirectoryError", fs |-> f]
        ELSE [err |-> "", fs |-> [q \in DOMAIN f \cup {p} |->
                                    IF q = p THEN FileNode(<<>>) ELSE f[q]]]

\* The buffered text reaches the open file p when it is closed.
OsWrite(f, p, text) == [f EXCEPT ![p] = FileNode(text)]

\* A pending Path.mkdir call.
MkdirCall(p, parents, exist_ok) == [path |-> p, parents |-> parents, exist_ok |-> exist_ok]

NoExc == OsError("", NoPath)

\* One filesystem call of Path.mkdir, the innermost pending call first:
\*   try: os.mkdir(self)
\*   except FileNotFoundError:
\*       if not parents or self.parent == self: raise
\*       self.parent.mkdir(parents=True, exist_ok=True)
\*       self.mkdir(mode, parents=False, exist_ok=exist_ok)
\*   except OSError:
\*       if not exist_ok or not self.is_dir(): raise
PathMkdirStep(f, stack) ==
    LET top == Head(stack)
        r == OsMkdir(f, top.path)
    IN  IF r.err = "" THEN [fs |-> r.fs, stack |-> Tail(stack), exc |-> NoExc]
        ELSE IF r.err = "FileNotFoundError" THEN
            IF ~top.parents \/ Parent(top.path) = top.path
            THEN [fs |-> f, stack |-> <<>>, exc |-> OsError(r.err, top.path)]
            ELSE [fs |-> f,
                  stack |-> <<MkdirCall(Parent(top.path), TRUE, TRUE),
                              MkdirCall(top.path, FALSE, top.exist_ok)>> \o Tail(stack),
                  exc |-> NoExc]
        ELSE IF ~top.exist_ok \/ ~IsDir(f, top.path)
            THEN [fs |-> f, stack |-> <<>>, exc |-> OsError(r.err, top.path)]
            ELSE [fs |-> f, stack |-> Tail(stack), exc |-> NoExc]

\* What find_repo_root finds in the candidates from index i on.
RECURSIVE FirstWithMarker_Downward(_, _, _)
FirstWithMarker_Downward(f, cands, i) ==
    IF i > Len(cands) THEN NoPath
    ELSE IF \E q \in DOMAIN f :
                /\ f[q].type = "file"
                /\ q # <<>>
                /\ q[Len(q)] = MARKER
                /\ IsPrefix(cands[i], q)
         THEN cands[i]
    ELSE FirstWithMarker_Downward(f, cands, i + 1)
RECURSIVE FirstWithMarker(_, _, _)
FirstWithMarker(f, cands, i) ==
    IF i > Len(cands) THEN NoPath
    ELSE IF IsFile(f, Join(cands[i], MARKER)) THEN cands[i]
    ELSE FirstWithMarker(f, cands, i + 1)

\* The paths find_repo_root probes with is_file() from candidate i on, in order:
\* the loop ends at the first marker file.
RECURSIVE ProbedFrom(_, _, _)
ProbedFrom(f, cands, i) ==
    IF i > Len(cands) THEN <<>>
    ELSE IF IsFile(f, Join(cands[i], MARKER)) THEN <<Join(cands[i], MARKER)>>
    ELSE <<Join(cands[i], MARKER)>> \o ProbedFrom(f, cands, i + 1)

FindRepoRootProbes(f, start_dir, cwd) ==
    ProbedFrom(f, Candidates(Resolve(StartOrCwd(start_dir, cwd), cwd)), 1)

\* find_repo_root(start_dir) in filesystem f, called with working directory cwd.
FindRepoRoot_RawStart(f, start_dir, cwd) ==
    LET start_abs_path == Resolve(StartOrCwd(start_dir, cwd), cwd)
        found == FirstWithMarker(f, Candidates(start_abs_path), 1)
    IN  IF found # NoPath THEN Returned(found)
        ELSE RepoRootNotFoundError(StartOrCwd(start_dir, cwd))
FindRepoRoot(f, start_dir, cwd) ==
    LET start_abs_path == Resolve(StartOrCwd(start_dir, cwd), cwd)
        found == FirstWithMarker(f, Candidates(start_abs_path), 1)
    IN  IF found # NoPath THEN Returned(found)
        ELSE RepoRootNotFoundError(start_abs_path)

(***************************************************************************)
(* Frames.                                                                 *)
(***************************************************************************)
Idle ==
    [op |-> "none", pc |-> "idle", start_dir |-> NoneDir, cwd |-> <<>>,
     root |-> NoPath, repo_path |-> NoPath, stack |-> <<>>, result |-> Returned(NoPath),
     probes |-> <<>>,       \* the paths the call has probed for the marker file
     overwrote |-> FALSE,   \* whether the call has opened an existing file for writing
     check |-> "none",      \* what the call's exists() check of repo_path found
     created |-> {}]        \* the paths the call has created

NoFs == <<>>

AllIdle == \A p \in DOMAIN procs : procs[p].pc = "idle"

\* The working directory of the processes.
Cwd == Chain(1)

\* The arguments a call is made with: None, an absolute directory of the tree,
\* or a path relative to the working directory.
RelInputs == {<<CUR>>, <<CUR, UP>>, <<CUR, LeafName>>, <<CUR, UP, LeafName>>}
StartDirs == {NoneDir} \cup Dirs \cup RelInputs
CallArgs == [start_dir : StartDirs, cwd : {Cwd}]

(***************************************************************************)
(* The command line (cli.py, __main__.py).  Output is a sequence of pieces *)
(* of text.                                                                *)
(***************************************************************************)
DIST_NAME == "ugit-diy"

NoArgv == <<"<None>">>       \* main() called with argv=None

CliIdle ==
    [pc |-> "idle", argv |-> <<>>, installed |-> FALSE,
     code |-> 0, stdout |-> <<>>, stderr |-> <<>>, dispatched |-> FALSE]

\* The help text of the parser: usage, description, the option group, epilog.
HelpText ==
    <<"usage: ugit [OPTIONS]", "\n",
      "A tiny Git-like version control system for learning Git.", "\n",
      "Global options:", "\n",
      "-h, --help", "Display the concise help for this command", "\n",
      "-v, --version", "Display the ugit-diy version", "\n",
      "Use 'ugit --help' for more details.", "\n">>

\* shown_version: the installed distribution's version, or __version__ when
\* the distribution is not installed.
ShownVersion(installed) ==
    <<DIST_NAME, " v", IF installed THEN "<metadata version>" ELSE "<__version__>">>

VersionText(installed) == ShownVersion(installed) \o <<"\n">>

\* parser.error(): usage and the message on stderr, exit status 2.
ErrorText(extras) ==
    <<"usage: ugit [OPTIONS]", "\n", "ugit: error: ", "unrecognized arguments: ">>
    \o extras \o <<"\n">>

SystemExit(code, out, err) == [exit |-> TRUE, code |-> code, stdout |-> out, stderr |-> err]
Namespace == [exit |-> FALSE, code |-> 0, stdout |-> <<>>, stderr |-> <<>>]

\* parser.parse_args(argv) from argument i on: an option acts where it
\* stands (help and version print and exit), "--" ends the options, and what
\* is not recognized is collected and reported at the end.
RECURSIVE ParseArgsFrom_VersionToStderr(_, _, _, _, _)
ParseArgsFrom_VersionToStderr(argv, i, extras, optionsEnded, installed) ==
    IF i > Len(argv) THEN
        IF extras # <<>> THEN SystemExit(2, <<>>, ErrorText(extras)) ELSE Namespace
    ELSE IF ~optionsEnded /\ argv[i] = "--" THEN
        ParseArgsFrom_VersionToStderr(argv, i + 1, Append(extras, argv[i]), TRUE, installed)
    ELSE IF ~optionsEnded /\ argv[i] \in {"-h", "--help"} THEN
        SystemExit(0, HelpText, <<>>)
    ELSE IF ~optionsEnded /\ argv[i] \in {"-v", "--version"} THEN
        SystemExit(0, <<>>, VersionText(installed))
    ELSE ParseArgsFrom_VersionToStderr(argv, i + 1, Append(extras, argv[i]), optionsEnded, installed)
RECURSIVE ParseArgsFrom(_, _, _, _, _)
ParseArgsFrom(argv, i, extras, optionsEnded, installed) ==
    IF i > Len(argv) THEN
        IF extras # <<>> THEN SystemExit(2, <<>>, ErrorText(extras)) ELSE Namespace
    ELSE IF ~optionsEnded /\ argv[i] = "--" THEN
        ParseArgsFrom(argv, i + 1, Append(extras, argv[i]), TRUE, installed)
    ELSE IF ~optionsEnded /\ argv[i] \in {"-h", "--help"} THEN
        SystemExit(0, HelpText, <<>>)
    ELSE IF ~optionsEnded /\ argv[i] \in {"-v", "--version"} THEN
        SystemExit(0, VersionText(installed), <<>>)
    ELSE ParseArgsFrom(argv, i + 1, Append(extras, argv[i]), optionsEnded, installed)

\* _dispatch(ns): no subcommands, it succeeds.
Dispatch == 0

\* main, lines 96-99: if not argv: parser.print_help(); return 0
MainNoArgs(c) == [c EXCEPT !.pc = "returned", !.code = 0, !.stdout = HelpText]

\* main, lines 101-106: parse; a SystemExit of the parser becomes the return
\* value, otherwise the dispatch result is returned.
MainParse_Propagate(c) ==
    LET r == ParseArgsFrom(c.argv, 1, <<>>, FALSE, c.installed)
    IN  IF r.exit
        THEN [c EXCEPT !.pc = "raised", !.code = r.code,
                       !.stdout = r.stdout, !.stderr = r.stderr]
        ELSE [c EXCEPT !.pc = "returned", !.code = Dispatch, !.dispatched = TRUE]
MainParse(c) ==
    LET r == ParseArgsFrom(c.argv, 1, <<>>, FALSE, c.installed)
    IN  IF r.exit
        THEN [c EXCEPT !.pc = "returned", !.code = r.code,
                       !.stdout = r.stdout, !.stderr = r.stderr]
        ELSE [c EXCEPT !.pc = "returned", !.code = Dispatch, !.dispatched = TRUE]

(***************************************************************************)
(* Logging (logging_setup.py).  A level is its name.  A logging            *)
(* configuration (the parsed packaged JSON) is a record: whether it is a   *)
(* mapping at all, whether it gives the version dictConfig requires, its   *)
(* handlers section (a mapping from handler names to handler entries, or   *)
(* something else) and the level of its root section ("" when it sets      *)
(* none).  A class name is the sequence of its pieces, so that "contains   *)
(* FileHandler" can be asked; a filename is a path.                        *)
(***************************************************************************)
ENV_UNSET == "<unset>"       \* UGIT_LOG_LEVEL is not in the environment

LevelNames == {"DEBUG", "INFO", "WARNING", "ERROR", "CRITICAL"}

\* str.upper() of the values the environment variable takes here.
Upper(name) ==
    CASE name = "debug" -> "DEBUG"
      [] name = "error" -> "ERROR"
      [] OTHER -> name

\* getattr(logging, name, ...): the level of that name, "<str>" for an
\* attribute of the logging module that is no int, "<missing>" for none.
LoggingAttr(name) ==
    CASE name \in LevelNames -> name
      [] name = "NOTSET" -> "NOTSET"
      [] name = "WARN" -> "WARNING"
      [] name = "FATAL" -> "CRITICAL"
      [] name = "BASIC_FORMAT" -> "<str>"
      [] OTHER -> "<missing>"

\* Whether a record of level lvl passes a logger of effective level eff.
Severity(lvl) ==
    CASE lvl = "NOTSET" -> 0
      [] lvl = "DEBUG" -> 1
      [] lvl = "INFO" -> 2
      [] lvl = "WARNING" -> 3
      [] lvl = "ERROR" -> 4
      [] lvl = "CRITICAL" -> 5

IsEnabledFor(eff, lvl) == Severity(lvl) >= Severity(eff)

\* Class names.
FileHandlerClass == <<"logging.", "FileHandler">>
RotatingClass == <<"logging.handlers.", "Rotating", "FileHandler">>
StreamHandlerClass == <<"logging.", "StreamHandler">>
NullHandlerClass == <<"logging.", "NullHandler">>
UnknownFileClass == <<"nope.", "FileHandler", "Like">>
NoClass == <<>>              \* the entry has no class key: get("class", "")

\* "FileHandler" in handler_class_name
LooksLikeFileHandler(cls) == \E i \in DOMAIN cls : cls[i] = "FileHandler"

\* A handler entry of the handlers section.
HandlerCfg(cls, has_filename, filename) ==
    [mapping |-> TRUE, class |-> cls, has_filename |-> has_filename, filename |-> filename]

\* An entry that is no mapping (a string, a number, a list).
NotAMapping == [mapping |-> FALSE, class |-> NoClass, has_filename |-> FALSE, filename |-> <<>>]

\* Path(str(filename_value)).name: the last component, "" when there is none.
BaseName(filename) == IF filename = <<>> THEN <<>> ELSE <<filename[Len(filename)]>>

\* lines 134-137: the entry with its filename under logs_dir.
RewriteHandler_KeepDirs(h, logs_dir) ==
    IF h.mapping /\ LooksLikeFileHandler(h.class) /\ h.has_filename
    THEN [h EXCEPT !.filename = logs_dir \o SelectSeq(h.filename, LAMBDA x : x \notin {CUR, UP})]
    ELSE h
RewriteHandler(h, logs_dir) ==
    IF h.mapping /\ LooksLikeFileHandler(h.class) /\ h.has_filename
    THEN [h EXCEPT !.filename = logs_dir \o BaseName(h.filename)]
    ELSE h

\* _apply_repo_local_filename(config, logs_dir): the config it leaves.  It is
\* called on a mapping; setup_logging's cast does not check that.
ApplyRepoLocalFilename(config, logs_dir) ==
    IF ~config.handlers_mapping THEN config
    ELSE [config EXCEPT !.handlers =
             [n \in DOMAIN config.handlers |-> RewriteHandler(config.handlers[n], logs_dir)]]

\* The handler names of a handlers section, in the order dictConfig
\* configures them (sorted).
HandlerNames == <<"console", "file1", "file2">>

NoHandlers == [n \in {} |-> NotAMapping]

Config(version_ok, handlers_mapping, handlers, root_level) ==
    [null |-> FALSE, mapping |-> TRUE, version_ok |-> version_ok,
     handlers_mapping |-> handlers_mapping, handlers |-> handlers,
     root_level |-> root_level]

\* JSON null, which json.loads gives back as None; also "no config".
NullConfig == [Config(FALSE, FALSE, NoHandlers, "") EXCEPT !.null = TRUE, !.mapping = FALSE]

\* A JSON value that is no object (a list).
ListConfig == [Config(FALSE, FALSE, NoHandlers, "") EXCEPT !.mapping = FALSE]

\* The packaged resource ugit_diy/config/logging.json.
Resource(state, value) == [state |-> state, value |-> value]

\* _load_packaged_logging_json(): the parsed JSON, or None when the resource
\* is no file, cannot be read or decoded, or is no JSON.
LoadPackagedLoggingJson(resource) ==
    IF resource.state = "json" THEN resource.value ELSE NullConfig

\* The classes dictConfig can resolve.
StreamClasses == {StreamHandlerClass, NullHandlerClass}
FileClasses == {FileHandlerClass, RotatingClass}

\* dictConfig makes handler h: a file handler opens its file for appending,
\* which creates it.  err is "" or the exception.
ConfigureHandler(f, h) ==
    IF ~h.mapping THEN [err |-> "ValueError", fs |-> f]
    ELSE IF h.class \in StreamClasses THEN
        [err |-> IF h.has_filename THEN "ValueError" ELSE "", fs |-> f]
    ELSE IF h.class \in FileClasses THEN
        IF ~h.has_filename THEN [err |-> "ValueError", fs |-> f]
        ELSE LET path == Resolve(h.filename, Cwd)
             IN  IF LookupError(f, Parent(path), 1) # "" \/ IsDir(f, path)
                 THEN [err |-> "ValueError", fs |-> f]
                 ELSE [err |-> "",
                       fs |-> [q \in DOMAIN f \cup {path} |->
                                 IF q \in DOMAIN f THEN f[q] ELSE FileNode(<<>>)]]
    ELSE [err |-> "ValueError", fs |-> f]

\* The handlers of the section from the i-th name on, one after the other;
\* the first failure ends dictConfig, with the files opened so far left.
RECURSIVE ConfigureHandlers(_, _, _)
ConfigureHandlers(f, handlers, i) ==
    IF i > Len(HandlerNames) THEN [err |-> "", fs |-> f]
    ELSE IF HandlerNames[i] \notin DOMAIN handlers THEN ConfigureHandlers(f, handlers, i + 1)
    ELSE LET r == ConfigureHandler(f, handlers[HandlerNames[i]])
         IN  IF r.err # "" THEN r ELSE ConfigureHandlers(r.fs, handlers, i + 1)

\* logging.config.dictConfig(config)
DictConfig(f, config) ==
    IF ~config.mapping \/ ~config.version_ok \/ ~config.handlers_mapping
    THEN [err |-> "ValueError", fs |-> f]
    ELSE ConfigureHandlers(f, config.handlers, 1)

\* The logging system before setup_logging is called: the root logger of a
\* fresh process has level WARNING and no handler.
LgIdle ==
    [pc |-> "idle", env_level |-> ENV_UNSET, resource |-> Resource("missing", NullConfig),
     config |-> NullConfig, loaded |-> NullConfig, logs_dir |-> NoPath,
     boot_warnings |-> <<>>, mode |-> "none", root_level |-> "WARNING",
     handlers |-> {}, capture_warnings |-> FALSE, records |-> <<>>, exc |-> ""]

FALLBACK_WARNING == "Packaged logging.json dictConfig not found or invalid, falling back."
FALLBACK_EXCEPTION == "Invalid packaged logging configuration; using basicConfig."

\* logger.warning(msg) / logger.exception(msg) on this module's logger: the
\* record, with the configuration it met.
Emit(l, level, msg) ==
    [l EXCEPT !.records = Append(@,
        [level |-> level, msg |-> msg, mode |-> l.mode, handlers |-> l.handlers,
         enabled |-> IsEnabledFor(l.root_level, level)])]

\* _emit_warnings_now(warnings_to_emit), from the i-th warning on.
RECURSIVE EmitWarningsNow(_, _, _)
EmitWarningsNow(l, warnings_to_emit, i) ==
    IF i > Len(warnings_to_emit) THEN l
    ELSE EmitWarningsNow(Emit(l, "WARNING", warnings_to_emit[i]), warnings_to_emit, i + 1)

\* _configure_fallback(): basicConfig(level=..., force=True) replaces the
\* root handlers by one stream handler and sets the root level; a level that
\* is no level makes setLevel raise, after the handler is installed.
FallbackLevel_IgnoreEnv(env_level) == "INFO"
FallbackLevel(env_level) ==
    LET level_name == Upper(IF env_level = ENV_UNSET THEN "INFO" ELSE env_level)
    IN  IF LoggingAttr(level_name) = "<missing>" THEN "INFO" ELSE LoggingAttr(level_name)

ConfigureFallback(l) ==
    IF FallbackLevel(l.env_level) = "<str>"
    THEN [l EXCEPT !.handlers = {"stderr"}, !.exc = "ValueError"]
    ELSE [l EXCEPT !.handlers = {"stderr"}, !.root_level = FallbackLevel(l.env_level),
                   !.capture_warnings = TRUE, !.mode = "fallback"]

\* lines 234-239: the optional root-level override.
OverrideRootLevel_Skip(l) == l
OverrideRootLevel(l) ==
    IF l.env_level \notin {ENV_UNSET, ""}
       /\ LoggingAttr(Upper(l.env_level)) \notin {"<missing>", "<str>"}
    THEN [l EXCEPT !.root_level = LoggingAttr(Upper(l.env_level))]
    ELSE l

\* Path(__file__).parent: the directory of the package.
PkgDir == Chain(MaxDepth)

LOGS == "logs"

(***************************************************************************)
(* The initial state: the bare tree of directories, nothing running.       *)
(***************************************************************************)
BareTree == [d \in Dirs |-> DirNode]

InitProcs(P) ==
    /\ fs = BareTree
    /\ procs = [p \in P |-> Idle]
    /\ pre = [p \in P |-> NoFs]
    /\ envOps = 0
    /\ inited = {}
    /\ cli = CliIdle
    /\ lg = LgIdle

(***************************************************************************)
(* Changes to the tree made from outside the program, between calls.       *)
(***************************************************************************)
EnvGuard == AllIdle /\ envOps < MaxEnvOps

\* A project manifest is written into directory d.
TouchMarker(d) ==
    /\ EnvGuard
    /\ ~Exists(fs, Join(d, MARKER))
    /\ fs' = fs @@ (Join(d, MARKER) :> FileNode(MARKER_TEXT))
    /\ envOps' = envOps + 1
    /\ UNCHANGED <<cli, lg, procs, pre, inited>>

\* A directory that bears the manifest's name is made in d.
MkdirMarker(d) ==
    /\ EnvGuard
    /\ ~Exists(fs, Join(d, MARKER))
    /\ fs' = fs @@ (Join(d, MARKER) :> DirNode)
    /\ envOps' = envOps + 1
    /\ UNCHANGED <<cli, lg, procs, pre, inited>>

\* The manifest (or the directory of its name) is removed from d.
RemoveMarker(d) ==
    /\ EnvGuard
    /\ Exists(fs, Join(d, MARKER))
    /\ fs' = Remove(fs, Join(d, MARKER))
    /\ envOps' = envOps + 1
    /\ UNCHANGED <<cli, lg, procs, pre, inited>>

\* Something else creates .ugit in the project root d, as an empty directory or
\* as a file.
ForeignUgit(d, node) ==
    /\ EnvGuard
    /\ IsFile(fs, Join(d, MARKER))
    /\ ~Exists(fs, Join(d, UGIT_DIR))
    /\ fs' = fs @@ (Join(d, UGIT_DIR) :> node)
    /\ envOps' = envOps + 1
    /\ UNCHANGED <<cli, lg, procs, pre, inited>>

(***************************************************************************)
(* find_repo_root called on its own.                                       *)
(***************************************************************************)
CallFindRepoRoot_TouchesStart(p, a) ==
    /\ procs[p].pc = "idle"
    /\ procs' = [procs EXCEPT ![p] =
                    [Idle EXCEPT !.op = "find_repo_root", !.pc = "done",
                                 !.start_dir = a.start_dir, !.cwd = a.cwd,
                                 !.probes = FindRepoRootProbes(fs, a.start_dir, a.cwd),
                                 !.result = FindRepoRoot(fs, a.start_dir, a.cwd)]]
    /\ pre' = [pre EXCEPT ![p] = fs]
    /\ fs' = IF FindRepoRoot(fs, a.start_dir, a.cwd).kind = "ok" THEN fs
             ELSE [q \in DOMAIN fs \cup {Join(<<>>, MARKER)} |->
                      IF q \in DOMAIN fs THEN fs[q] ELSE FileNode(<<>>)]
    /\ UNCHANGED <<cli, lg, envOps, inited>>
CallFindRepoRoot_Memo(p, a) ==
    /\ procs[p].pc = "idle"
    /\ procs' = [procs EXCEPT ![p] =
                    [Idle EXCEPT !.op = "find_repo_root", !.pc = "done",
                                 !.start_dir = a.start_dir, !.cwd = a.cwd,
                                 !.probes = FindRepoRootProbes(fs, a.start_dir, a.cwd),
                                 !.result =
                                     IF \E q \in DOMAIN procs :
                                            /\ procs[q].op = "find_repo_root"
                                            /\ procs[q].pc = "done"
                                            /\ procs[q].start_dir = a.start_dir
                                     THEN procs[CHOOSE q \in DOMAIN procs :
                                                    /\ procs[q].op = "find_repo_root"
                                                    /\ procs[q].pc = "done"
                                                    /\ procs[q].start_dir = a.start_dir].result
                                     ELSE FindRepoRoot(fs, a.start_dir, a.cwd)]]
    /\ pre' = [pre EXCEPT ![p] = fs]
    /\ UNCHANGED <<cli, lg, fs, envOps, inited>>
CallFindRepoRoot(p, a) ==
    /\ procs[p].pc = "idle"
    /\ procs' = [procs EXCEPT ![p] =
                    [Idle EXCEPT !.op = "find_repo_root", !.pc = "done",
                                 !.start_dir = a.start_dir, !.cwd = a.cwd,
                                 !.probes = FindRepoRootProbes(fs, a.start_dir, a.cwd),
                                 !.result = FindRepoRoot(fs, a.start_dir, a.cwd)]]
    /\ pre' = [pre EXCEPT ![p] = fs]
    /\ UNCHANGED <<cli, lg, fs, envOps, inited>>

(***************************************************************************)
(* init_repo, one filesystem call per step.                                *)
(***************************************************************************)
Raise(fr, exc) == [fr EXCEPT !.pc = "done", !.stack = <<>>, !.result = exc]

\* The directories of lines 76-78, relative to the repository, in order.
Line76 == <<"objects">>
Line77 == <<"refs", "heads">>
Line78 == <<"refs", "tags">>
Line79 == <<"HEAD">>

MkdirTarget(pc) ==
    CASE pc = "line76" -> Line76
      [] pc = "line77" -> Line77
      [] pc = "line78" -> Line78

AfterMkdir_SkipTags(pc) ==
    CASE pc = "line76" -> "line77"
      [] pc = "line77" -> "line79_open"
      [] pc = "line78" -> "line79_open"
AfterMkdir(pc) ==
    CASE pc = "line76" -> "line77"
      [] pc = "line77" -> "line78"
      [] pc = "line78" -> "line79_open"

\* Control reaches the statement at pc: a mkdir line starts its Path.mkdir call.
Goto_ExistOk(fr, pc) ==
    [fr EXCEPT !.pc = pc,
               !.stack = IF pc \in {"line76", "line77", "line78"}
                         THEN <<MkdirCall(fr.repo_path \o MkdirTarget(pc), TRUE, TRUE)>>
                         ELSE <<>>]
Goto(fr, pc) ==
    [fr EXCEPT !.pc = pc,
               !.stack = IF pc \in {"line76", "line77", "line78"}
                         THEN <<MkdirCall(fr.repo_path \o MkdirTarget(pc), TRUE, FALSE)>>
                         ELSE <<>>]

\* Lines 70-71: root = find_repo_root(start_dir); repo_path = root / UGIT_DIR
Line70_Wrap(fr, found) ==
    IF found.kind # "ok" THEN Raise(fr, OsError("RuntimeError", found.msg.path))
    ELSE [fr EXCEPT !.pc = "line73", !.root = found.value,
                    !.repo_path = Join(found.value, UGIT_DIR)]
Line70_UnderStart(fr, found) ==
    IF found.kind # "ok" THEN Raise(fr, found)
    ELSE [fr EXCEPT !.pc = "line73", !.root = Resolve(StartOrCwd(fr.start_dir, fr.cwd), fr.cwd),
                    !.repo_path = Join(Resolve(StartOrCwd(fr.start_dir, fr.cwd), fr.cwd), UGIT_DIR)]
Line70(fr, found) ==
    IF found.kind # "ok" THEN Raise(fr, found)
    ELSE [fr EXCEPT !.pc = "line73", !.root = found.value,
                    !.repo_path = Join(found.value, UGIT_DIR)]

\* Lines 73-74: if repo_path.exists(): raise RepoAlreadyExistsError(repo_path)
Line73_Reinit(f, fr) ==
    [fs |-> [q \in DOMAIN f \ (Under(f, fr.repo_path) \cup {fr.repo_path}) |-> f[q]],
     fr |-> Goto(fr, "line76")]
Line73_NoCheck(f, fr) == [fs |-> f, fr |-> Goto(fr, "line76")]
Line73_DirOnly(f, fr) ==
    IF IsDir(f, fr.repo_path)
    THEN [fs |-> f, fr |-> Raise(fr, RepoAlreadyExistsError(fr.repo_path))]
    ELSE [fs |-> f, fr |-> Goto(fr, "line76")]
Line73(f, fr) ==
    IF Exists(f, fr.repo_path)
    THEN [fs |-> f, fr |-> Raise(fr, RepoAlreadyExistsError(fr.repo_path))]
    ELSE [fs |-> f, fr |-> Goto(fr, "line76")]

\* Lines 76-78: (repo_path / ...).mkdir(parents=True), one os.mkdir at a time.
LineMkdir(f, fr) ==
    LET m == PathMkdirStep(f, fr.stack)
    IN  IF m.exc # NoExc THEN [fs |-> f, fr |-> Raise(fr, m.exc)]
        ELSE IF m.stack = <<>> THEN [fs |-> m.fs, fr |-> Goto(fr, AfterMkdir(fr.pc))]
        ELSE [fs |-> m.fs, fr |-> [fr EXCEPT !.stack = m.stack]]

\* Line 79: (repo_path / "HEAD").write_text(...): the file is opened for writing,
LineOpen(f, fr) ==
    LET o == OsOpenW(f, fr.repo_path \o Line79)
    IN  IF o.err # "" THEN [fs |-> f, fr |-> Raise(fr, OsError(o.err, fr.repo_path \o Line79))]
        ELSE [fs |-> o.fs,
              fr |-> [Goto(fr, "line79_write") EXCEPT
                         !.overwrote = Exists(f, fr.repo_path \o Line79)]]

\* then the text is written and the file closed; line 81: return repo_path
LineWrite(f, fr) ==
    [fs |-> OsWrite(f, fr.repo_path \o Line79, HEAD_TEXT),
     fr |-> [fr EXCEPT !.pc = "done", !.result = Returned(fr.repo_path)]]

InitRepoStep(f, fr) ==
    CASE fr.pc = "line73" -> Line73(f, fr)
      [] fr.pc \in {"line76", "line77", "line78"} -> LineMkdir(f, fr)
      [] fr.pc = "line79_open" -> LineOpen(f, fr)
      [] fr.pc = "line79_write" -> LineWrite(f, fr)

Running(fr) == fr.op = "init_repo" /\ fr.pc \notin {"idle", "done"}

\* init_repo(start_dir) is called: it locates the project root first.
CallInitRepo(p, a) ==
    /\ procs[p].pc = "idle"
    /\ procs' = [procs EXCEPT ![p] =
                    Line70([Idle EXCEPT !.op = "init_repo", !.start_dir = a.start_dir,
                                        !.cwd = a.cwd,
                                        !.probes = FindRepoRootProbes(fs, a.start_dir, a.cwd)],
                           FindRepoRoot(fs, a.start_dir, a.cwd))]
    /\ pre' = [pre EXCEPT ![p] = fs]
    /\ UNCHANGED <<cli, lg, fs, envOps, inited>>

\* The next filesystem call of a running init_repo.
StepInitRepo(p) ==
    /\ Running(procs[p])
    /\ LET s == InitRepoStep(fs, procs[p])
       IN  /\ fs' = s.fs
           /\ procs' = [procs EXCEPT ![p] =
                  [s.fr EXCEPT
                     !.check = IF procs[p].pc # "line73" THEN procs[p].check
                               ELSE IF Exists(fs, procs[p].repo_path) THEN "exists"
                               ELSE "absent",
                     !.created = procs[p].created \cup (DOMAIN s.fs \ DOMAIN fs)]]
           /\ inited' = IF s.fr.pc = "done" /\ s.fr.result.kind = "ok"
                        THEN inited \cup {s.fr.result.value} ELSE inited
    /\ UNCHANGED <<cli, lg, pre, envOps>>

\* The path of the filesystem call a running init_repo makes next.
NextCallPath(fr) ==
    IF fr.stack # <<>> THEN Head(fr.stack).path
    ELSE IF fr.pc = "line73" THEN fr.repo_path
    ELSE fr.repo_path \o Line79

Creating(fr) ==
    fr.op = "init_repo" /\ fr.pc \in {"line76", "line77", "line78", "line79_open", "line79_write"}

\* A creation step of a running init_repo fails in the filesystem (permission
\* denied, disk full): the call changes nothing and its OSError propagates out
\* of init_repo, which has no handler.
FaultInitRepo(p) ==
    /\ Creating(procs[p])
    /\ procs' = [procs EXCEPT ![p] = Raise(procs[p], OsError("OSError", NextCallPath(procs[p])))]
    /\ UNCHANGED <<cli, lg, fs, pre, envOps, inited>>

\* The caller takes the result; the process is free for its next call.
Return(p) ==
    /\ procs[p].pc = "done"
    /\ procs' = [procs EXCEPT ![p] = Idle]
    /\ pre' = [pre EXCEPT ![p] = NoFs]
    /\ UNCHANGED <<cli, lg, fs, envOps, inited>>

(***************************************************************************)
(* Specifications.                                                         *)
(***************************************************************************)
SeqProcs == {1}

Init == InitProcs(SeqProcs)

Next ==
    \/ \E d \in Dirs : TouchMarker(d)
    \/ \E d \in Dirs : MkdirMarker(d)
    \/ \E d \in Dirs : RemoveMarker(d)
    \/ \E d \in Dirs, node \in {DirNode, FileNode(<<>>)} : ForeignUgit(d, node)
    \/ \E p \in DOMAIN procs, a \in CallArgs : CallFindRepoRoot(p, a)
    \/ \E p \in DOMAIN procs, a \in CallArgs : CallInitRepo(p, a)
    \/ \E p \in DOMAIN procs : StepInitRepo(p)
    \/ \E p \in DOMAIN procs : Return(p)

\* One process, call after call; every filesystem call succeeds or fails as
\* the state of the tree says.
Spec == Init /\ [][Next]_vars

\* As Spec, and a filesystem call of init_repo may fail with an OSError.
NextFault == Next \/ \E p \in DOMAIN procs : FaultInitRepo(p)

SpecFault == Init /\ [][NextFault]_vars

\* Two processes whose filesystem calls interleave.  Each makes one call, with
\* an absolute start directory; manifests are written before the calls.
ConcProcs == {1, 2}

InitConc == InitProcs(ConcProcs)

AbsCallArgs == {a \in CallArgs : IsAbsolute(a.start_dir)}

NextConc ==
    \/ \E d \in Dirs : TouchMarker(d)
    \/ \E p \in DOMAIN procs, a \in AbsCallArgs : CallInitRepo(p, a)
    \/ \E p \in DOMAIN procs : StepInitRepo(p)

SpecConc == InitConc /\ [][NextConc]_vars

(***************************************************************************)
(* The command line run in a project tree.                                 *)
(***************************************************************************)
MaxArgs == 2        \* number of command-line arguments

Tokens == {"-h", "--help", "-v", "--version", "init", "--bogus", "--"}

RECURSIVE ArgvOfLen(_)
ArgvOfLen(n) ==
    IF n = 0 THEN {<<>>}
    ELSE {Append(a, t) : a \in ArgvOfLen(n - 1), t \in Tokens}

Argvs == {NoArgv} \cup UNION {ArgvOfLen(n) : n \in 0..MaxArgs}

\* main(argv) is called; with no arguments it prints the help and returns.
CallMain(argv, installed) ==
    /\ cli.pc = "idle"
    /\ cli' = IF argv = NoArgv \/ argv = <<>>
              THEN MainNoArgs([CliIdle EXCEPT !.argv = argv, !.installed = installed])
              ELSE [CliIdle EXCEPT !.pc = "parse", !.argv = argv, !.installed = installed]
    /\ UNCHANGED <<fs, procs, pre, envOps, inited, lg>>

\* main parses its arguments and returns.
StepMain ==
    /\ cli.pc = "parse"
    /\ cli' = MainParse(cli)
    /\ UNCHANGED <<fs, procs, pre, envOps, inited, lg>>

\* sys.exit(main(sys.argv[1:])): the process exits with main's return value.
SysExit ==
    /\ cli.pc = "returned"
    /\ cli' = [cli EXCEPT !.pc = "exited"]
    /\ UNCHANGED <<fs, procs, pre, envOps, inited, lg>>

NextCli ==
    \/ \E d \in Dirs : cli.pc = "idle" /\ TouchMarker(d)
    \/ \E d \in Dirs, node \in {DirNode, FileNode(<<>>)} : cli.pc = "idle" /\ ForeignUgit(d, node)
    \/ \E argv \in Argvs, installed \in BOOLEAN : CallMain(argv, installed)
    \/ StepMain
    \/ SysExit

SpecCli == Init /\ [][NextCli]_vars

(***************************************************************************)
(* setup_logging, statement by statement.                                  *)
(***************************************************************************)
\* Path.mkdir run to its end: the filesystem calls of the pending stack.
RECURSIVE PathMkdir(_, _)
PathMkdir(f, stack) ==
    LET m == PathMkdirStep(f, stack)
    IN  IF m.exc # NoExc \/ m.stack = <<>> THEN m ELSE PathMkdir(m.fs, m.stack)

\* The environment and the packaged resource of the process.
EnvLevels ==
    {ENV_UNSET, "", "DEBUG", "INFO", "WARNING", "ERROR", "CRITICAL",
     "error", "LOUD", "NOTSET", "BASIC_FORMAT"}

AbsLogFile == <<"var", "log", "app.log">>
RelLogFile == <<CUR, "nested", "other.log">>

Only(name, h) == [n \in {name} |-> h]

PackagedConfigs ==
    { \* a file handler and a console handler, root level INFO
      Config(TRUE, TRUE,
             [n \in {"console", "file1"} |->
                 IF n = "console" THEN HandlerCfg(StreamHandlerClass, FALSE, <<>>)
                 ELSE HandlerCfg(FileHandlerClass, TRUE, RelLogFile)], "INFO"),
      \* a null handler, root level INFO
      Config(TRUE, TRUE, Only("console", HandlerCfg(NullHandlerClass, FALSE, <<>>)), "INFO"),
      \* no handlers, no root level
      Config(TRUE, TRUE, NoHandlers, ""),
      \* no version
      Config(FALSE, TRUE, NoHandlers, "DEBUG"),
      \* a handlers section that is a list
      Config(TRUE, FALSE, NoHandlers, "DEBUG"),
      \* a class that cannot be resolved
      Config(TRUE, TRUE, Only("file1", HandlerCfg(UnknownFileClass, TRUE, AbsLogFile)), "DEBUG"),
      \* a file handler with an empty filename
      Config(TRUE, TRUE, Only("file1", HandlerCfg(FileHandlerClass, TRUE, <<>>)), "DEBUG"),
      \* a file handler, then an entry that is no mapping
      Config(TRUE, TRUE,
             [n \in {"file1", "file2"} |->
                 IF n = "file1" THEN HandlerCfg(RotatingClass, TRUE, AbsLogFile)
                 ELSE NotAMapping], "DEBUG") }

Resources ==
    {Resource("missing", NullConfig), Resource("invalid", NullConfig),
     Resource("json", NullConfig), Resource("json", ListConfig)}
    \cup {Resource("json", c) : c \in PackagedConfigs}

\* Something named logs is made in directory d, a directory or a file.
ForeignLogs(d, node) ==
    /\ EnvGuard
    /\ lg.pc = "idle"
    /\ ~Exists(fs, Join(d, LOGS))
    /\ fs' = fs @@ (Join(d, LOGS) :> node)
    /\ envOps' = envOps + 1
    /\ UNCHANGED <<procs, pre, inited, cli, lg>>

\* setup_logging() is called in a process with this environment and resource.
CallSetupLogging(env_level, resource) ==
    /\ lg.pc = "idle"
    /\ lg' = [LgIdle EXCEPT !.pc = "line219", !.env_level = env_level, !.resource = resource]
    /\ UNCHANGED <<fs, procs, pre, envOps, inited, cli>>

\* line 219: logs_dir = _ensure_repo_logs_dir(), that is find_repo_root from
\* the package directory and logs_dir.mkdir(parents=True, exist_ok=True).  The
\* statement is outside the try block: what it raises leaves setup_logging.
StepLogsDir ==
    /\ lg.pc = "line219"
    /\ LET found == FindRepoRoot(fs, PkgDir, Cwd)
           m == PathMkdir(fs, <<MkdirCall(Join(found.value, LOGS), TRUE, TRUE)>>)
       IN  IF found.kind # "ok"
           THEN /\ lg' = [lg EXCEPT !.pc = "raised", !.exc = found.kind]
                /\ fs' = fs
           ELSE IF m.exc # NoExc
           THEN /\ lg' = [lg EXCEPT !.pc = "raised", !.exc = m.exc.kind]
                /\ fs' = m.fs
           ELSE /\ lg' = [lg EXCEPT !.pc = "line222", !.logs_dir = Join(found.value, LOGS)]
                /\ fs' = m.fs
    /\ UNCHANGED <<procs, pre, envOps, inited, cli>>

\* lines 222-224: config = _load_packaged_logging_json(); if config is None:
\* boot_warnings.append(...)
StepLoad_WarnAtOnce ==
    /\ lg.pc = "line222"
    /\ LET config == LoadPackagedLoggingJson(lg.resource)
       IN  lg' = IF config.null
                 THEN [Emit(lg, "WARNING", FALLBACK_WARNING) EXCEPT
                          !.pc = "line225",
                          !.boot_warnings = Append(@, FALLBACK_WARNING)]
                 ELSE [lg EXCEPT !.pc = "line230", !.config = config, !.loaded = config]
    /\ UNCHANGED <<fs, procs, pre, envOps, inited, cli>>
StepLoad ==
    /\ lg.pc = "line222"
    /\ LET config == LoadPackagedLoggingJson(lg.resource)
       IN  lg' = IF config.null
                 THEN [lg EXCEPT !.pc = "line225",
                                 !.boot_warnings = Append(@, FALLBACK_WARNING)]
                 ELSE [lg EXCEPT !.pc = "line230", !.config = config, !.loaded = config]
    /\ UNCHANGED <<fs, procs, pre, envOps, inited, cli>>

\* line 225: _configure_fallback()
StepFallback ==
    /\ lg.pc = "line225"
    /\ LET l == ConfigureFallback(lg)
       IN  lg' = [l EXCEPT !.pc = IF l.exc # "" THEN "raised" ELSE "line226"]
    /\ UNCHANGED <<fs, procs, pre, envOps, inited, cli>>

\* lines 226-227: _emit_warnings_now(boot_warnings); return
StepEmit ==
    /\ lg.pc = "line226"
    /\ lg' = [EmitWarningsNow(lg, lg.boot_warnings, 1) EXCEPT !.pc = "returned"]
    /\ UNCHANGED <<fs, procs, pre, envOps, inited, cli>>

\* line 230: _apply_repo_local_filename(config, logs_dir); a config that is
\* no mapping has no get().
StepApply ==
    /\ lg.pc = "line230"
    /\ lg' = IF ~lg.config.mapping THEN [lg EXCEPT !.pc = "except"]
             ELSE [lg EXCEPT !.pc = "line231",
                             !.config = ApplyRepoLocalFilename(lg.config, lg.logs_dir)]
    /\ UNCHANGED <<fs, procs, pre, envOps, inited, cli>>

\* lines 231-232: logging.config.dictConfig(config); captureWarnings(True).
\* The configured handlers are the root logger's.
StepDictConfig ==
    /\ lg.pc = "line231"
    /\ LET r == DictConfig(fs, lg.config)
       IN  /\ fs' = r.fs
           /\ lg' = IF r.err # "" THEN [lg EXCEPT !.pc = "except"]
                    ELSE [lg EXCEPT !.pc = "line235", !.mode = "packaged",
                                    !.handlers = DOMAIN lg.config.handlers,
                                    !.root_level = IF lg.config.root_level = "" THEN @
                                                   ELSE lg.config.root_level,
                                    !.capture_warnings = TRUE]
    /\ UNCHANGED <<procs, pre, envOps, inited, cli>>

\* lines 234-239: the root level of the environment.
StepOverride ==
    /\ lg.pc = "line235"
    /\ lg' = [OverrideRootLevel(lg) EXCEPT !.pc = "finally"]
    /\ UNCHANGED <<fs, procs, pre, envOps, inited, cli>>

\* lines 241-244: except Exception: _configure_fallback(); logger.exception(...)
StepExcept ==
    /\ lg.pc = "except"
    /\ LET l == ConfigureFallback(lg)
       IN  lg' = IF l.exc # "" THEN [l EXCEPT !.pc = "finally"]
                 ELSE [Emit(l, "ERROR", FALLBACK_EXCEPTION) EXCEPT !.pc = "finally"]
    /\ UNCHANGED <<fs, procs, pre, envOps, inited, cli>>

\* lines 245-246: finally: _emit_warnings_now(boot_warnings)
StepFinally ==
    /\ lg.pc = "finally"
    /\ lg' = [EmitWarningsNow(lg, lg.boot_warnings, 1) EXCEPT
                 !.pc = IF lg.exc # "" THEN "raised" ELSE "returned"]
    /\ UNCHANGED <<fs, procs, pre, envOps, inited, cli>>

NextLog ==
    \/ \E d \in Dirs : lg.pc = "idle" /\ TouchMarker(d)
    \/ \E d \in Dirs, node \in {DirNode, FileNode(<<>>)} : ForeignLogs(d, node)
    \/ \E e \in EnvLevels, r \in Resources : CallSetupLogging(e, r)
    \/ StepLogsDir
    \/ StepLoad
    \/ StepFallback
    \/ StepEmit
    \/ StepApply
    \/ StepDictConfig
    \/ StepOverride
    \/ StepExcept
    \/ StepFinally

SpecLog == Init /\ [][NextLog]_vars

(***************************************************************************)
(* _apply_repo_local_filename called on its own, on the configs whose      *)
(* handlers section holds up to MaxHandlers entries.                       *)
(***************************************************************************)
MaxHandlers == 2

HandlerClasses ==
    {FileHandlerClass, RotatingClass, StreamHandlerClass, NullHandlerClass,
     UnknownFileClass, NoClass}

FileNames == {AbsLogFile, RelLogFile, <<>>}

HandlerEntries ==
    {NotAMapping}
    \cup {HandlerCfg(c, FALSE, <<>>) : c \in HandlerClasses}
    \cup {HandlerCfg(c, TRUE, fn) : c \in HandlerClasses, fn \in FileNames}

NameSets ==
    {N \in SUBSET {HandlerNames[i] : i \in DOMAIN HandlerNames} : Cardinality(N) <= MaxHandlers}

HandlerMaps == UNION {[N -> HandlerEntries] : N \in NameSets}

ApplyInputs ==
    {Config(TRUE, TRUE, h, "INFO") : h \in HandlerMaps}
    \cup {Config(TRUE, FALSE, NoHandlers, "INFO")}

LogsDirs == {Join(d, LOGS) : d \in {<<>>, Cwd}}

CallApplyRepoLocalFilename(config, logs_dir) ==
    /\ lg.pc = "idle"
    /\ lg' = [LgIdle EXCEPT !.pc = "applied", !.loaded = config, !.logs_dir = logs_dir,
                            !.config = ApplyRepoLocalFilename(config, logs_dir)]
    /\ UNCHANGED <<fs, procs, pre, envOps, inited, cli>>

NextApply == \E c \in ApplyInputs, d \in LogsDirs : CallApplyRepoLocalFilename(c, d)

SpecApply == Init /\ [][NextApply]_vars

\* Two calls made one after the other, the first by process 1 and the second
\* by process 2.  Manifests are written before the first call, and between the
\* two calls a manifest may be written or removed.
BetweenCalls == procs[1].pc = "done" /\ procs[2].pc = "idle" /\ envOps < MaxEnvOps

WriteMarkerBetween(d) ==
    /\ BetweenCalls
    /\ ~Exists(fs, Join(d, MARKER))
    /\ fs' = fs @@ (Join(d, MARKER) :> FileNode(MARKER_TEXT))
    /\ envOps' = envOps + 1
    /\ UNCHANGED <<cli, lg, procs, pre, inited>>

RemoveMarkerBetween(d) ==
    /\ BetweenCalls
    /\ IsFile(fs, Join(d, MARKER))
    /\ fs' = Remove(fs, Join(d, MARKER))
    /\ envOps' = envOps + 1
    /\ UNCHANGED <<cli, lg, procs, pre, inited>>

FirstCall(a) ==
    /\ procs[2].pc = "idle"
    /\ (CallFindRepoRoot(1, a) \/ CallInitRepo(1, a))

SecondCall(a) ==
    /\ procs[1].pc = "done"
    /\ (CallFindRepoRoot(2, a) \/ CallInitRepo(2, a))

NextTwice ==
    \/ \E d \in Dirs : TouchMarker(d)
    \/ \E a \in CallArgs : FirstCall(a)
    \/ \E d \in Dirs : WriteMarkerBetween(d)
    \/ \E d \in Dirs : RemoveMarkerBetween(d)
    \/ \E a \in CallArgs : SecondCall(a)
    \/ \E p \in DOMAIN procs : StepInitRepo(p)

SpecTwice == InitConc /\ [][NextTwice]_vars

\* Three processes race for one project root: the manifest is written into the
\* working directory, and each process calls init_repo once, from the working
\* directory or from its subdirectory.
RaceProcs == {1, 2, 3}

InitRace == InitProcs(RaceProcs)

RaceArgs == {a \in AbsCallArgs : a.start_dir \in {Cwd, Append(Cwd, LeafName)}}

NextRace ==
    \/ TouchMarker(Cwd)
    \/ \E p \in DOMAIN procs, a \in RaceArgs : CallInitRepo(p, a)
    \/ \E p \in DOMAIN procs : StepInitRepo(p)

SpecRace == InitRace /\ [][NextRace]_vars

(***************************************************************************)
(* What the claims speak of.                                               *)
(***************************************************************************)
\* The resolved start directory of a call.
StartAbs(fr) == Resolve(StartOrCwd(fr.start_dir, fr.cwd), fr.cwd)

\* d and its ancestors.
Ancestors(d) == {SubSeq(d, 1, n) : n \in 0..Len(d)}

\* Directory d directly contains the marker file.
HasMarker(f, d) == Join(d, MARKER) \in DOMAIN f /\ f[Join(d, MARKER)].type = "file"

\* The directories of d's ancestor chain that contain the marker file.
MarkedAncestors(f, d) == {c \in Ancestors(d) : HasMarker(f, c)}

\* The nearest of them.
NearestRoot(f, d) ==
    CHOOSE c \in MarkedAncestors(f, d) : \A c2 \in MarkedAncestors(f, d) : Len(c2) <= Len(c)

FindDone(fr) == fr.op = "find_repo_root" /\ fr.pc = "done"
InitDone(fr) == fr.op = "init_repo" /\ fr.pc = "done"

\* The tree at and below r.
Subtree(f, r) == [q \in {x \in DOMAIN f : IsPrefix(r, x)} |-> f[q]]

\* The layout of a fresh repository at r.
FreshLayout(r) ==
    (r :> [type |-> "dir", content |-> <<>>])
    @@ (r \o <<"objects">> :> [type |-> "dir", content |-> <<>>])
    @@ (r \o <<"refs">> :> [type |-> "dir", content |-> <<>>])
    @@ (r \o <<"refs", "heads">> :> [type |-> "dir", content |-> <<>>])
    @@ (r \o <<"refs", "tags">> :> [type |-> "dir", content |-> <<>>])
    @@ (r \o <<"HEAD">> :> [type |-> "file", content |-> <<"ref: refs/heads/main", "\n">>])

(***************************************************************************)
(* C1.  Whenever the resolved start directory d or one of its ancestors    *)
(* directly contains the marker file, find_repo_root(d) returns the        *)
(* nearest such directory of the chain d, parent(d), ..., never a farther  *)
(* one, at whatever depth d lies below it.                                 *)
(***************************************************************************)
C1_NearestMarkedAncestor ==
    \A p \in DOMAIN procs :
        LET fr == procs[p]
            d == StartAbs(fr)
        IN  (FindDone(fr) /\ MarkedAncestors(pre[p], d) # {}) =>
                /\ fr.result.kind = "ok"
                /\ fr.result.value \in MarkedAncestors(pre[p], d)
                /\ \A c \in MarkedAncestors(pre[p], d) : Len(c) <= Len(fr.result.value)

\* A call that started below its result while a farther ancestor holds a marker too.
C1_Witness ==
    \E p \in DOMAIN procs :
        /\ FindDone(procs[p])
        /\ procs[p].result.kind = "ok"
        /\ Len(procs[p].result.value) < Len(StartAbs(procs[p]))
        /\ \E c \in MarkedAncestors(pre[p], procs[p].result.value) : c # procs[p].result.value

(***************************************************************************)
(* C2.  Whenever no directory of the resolved start directory's ancestor   *)
(* chain (the filesystem root included) contains the marker file,          *)
(* find_repo_root has probed every directory of the chain, from the start  *)
(* directory up to the root, and ends with RepoRootNotFoundError, whose    *)
(* message holds the resolved absolute start directory; it returns no      *)
(* directory.                                                              *)
(***************************************************************************)
C2_NotFoundCarriesResolvedStart ==
    \A p \in DOMAIN procs :
        LET fr == procs[p]
        IN  (FindDone(fr) /\ MarkedAncestors(pre[p], StartAbs(fr)) = {}) =>
                /\ fr.result.kind = "RepoRootNotFoundError"
                /\ fr.result.value = NoPath
                /\ fr.result.msg.path = StartAbs(fr)
                /\ IsAbsolute(fr.result.msg.path)
                /\ Len(fr.probes) = Len(StartAbs(fr)) + 1
                /\ \A i \in 1..Len(fr.probes) :
                       fr.probes[i] =
                           Append(SubSeq(StartAbs(fr), 1, Len(StartAbs(fr)) + 1 - i),
                                  "pyproject.toml")

\* A failed search from a relative start directory, two levels deep, past a
\* directory that bears the marker's name.
C2_Witness ==
    \E p \in DOMAIN procs :
        /\ FindDone(procs[p])
        /\ procs[p].result.kind = "RepoRootNotFoundError"
        /\ ~IsAbsolute(procs[p].start_dir)
        /\ procs[p].start_dir # NoneDir
        /\ Len(StartAbs(procs[p])) = 2
        /\ \E c \in Ancestors(StartAbs(procs[p])) : IsDir(pre[p], Join(c, MARKER))

(***************************************************************************)
(* C3.  When init_repo has succeeded on a project root where .ugit did not *)
(* exist, the tree at <root>/.ugit is exactly: the directories .ugit,      *)
(* objects, refs, refs/heads, refs/tags and the file HEAD whose text is    *)
(* "ref: refs/heads/main\n"; nothing else is under .ugit.                  *)
(***************************************************************************)
C3_ExactLayout ==
    \A p \in DOMAIN procs :
        LET fr == procs[p]
            r == Join(NearestRoot(pre[p], StartAbs(fr)), ".ugit")
        IN  (InitDone(fr) /\ fr.result.kind = "ok" /\ r \notin DOMAIN pre[p]) =>
                Subtree(fs, r) = FreshLayout(r)

C3_Witness ==
    \E p \in DOMAIN procs :
        /\ InitDone(procs[p])
        /\ procs[p].result.kind = "ok"
        /\ procs[p].result.value \notin DOMAIN pre[p]
        /\ Subtree(fs, procs[p].result.value) # <<>>

\* The repository path an init_repo call is to use: .ugit under the nearest
\* marked ancestor of its resolved start directory, as the tree stood at the call.
TargetRepo(p) == Join(NearestRoot(pre[p], StartAbs(procs[p])), ".ugit")

RootFound(p) == MarkedAncestors(pre[p], StartAbs(procs[p])) # {}

(***************************************************************************)
(* C4.  Of the init_repo calls against one project root, the first         *)
(* succeeds and every later one ends with RepoAlreadyExistsError; once a   *)
(* call has returned a repository, no later call of init_repo or of        *)
(* find_repo_root changes anything at or below it, in any state it passes  *)
(* through: HEAD keeps the text the first call wrote.                      *)
(***************************************************************************)
C4_SuccessThenAlreadyExists ==
    /\ \A r \in inited : Subtree(fs, r) = FreshLayout(r)
    /\ \A p \in DOMAIN procs :
        (InitDone(procs[p]) /\ RootFound(p)) =>
            IF TargetRepo(p) \in DOMAIN pre[p]
            THEN /\ procs[p].result.kind = "RepoAlreadyExistsError"
                 /\ fs = pre[p]
            ELSE /\ procs[p].result.kind = "ok"
                 /\ TargetRepo(p) \in inited

\* A later call against a root that an earlier call initialized.
C4_Witness ==
    \E p \in DOMAIN procs :
        /\ InitDone(procs[p])
        /\ RootFound(p)
        /\ TargetRepo(p) \in inited
        /\ Join(TargetRepo(p), "HEAD") \in DOMAIN pre[p]
        /\ procs[p].result.kind = "RepoAlreadyExistsError"

(***************************************************************************)
(* C5.  When <project_root>/.ugit exists at the call, as a directory or as *)
(* a regular file, init_repo ends with RepoAlreadyExistsError that carries *)
(* exactly that path in its message and in repo_path, and the filesystem   *)
(* is as it was before the call.                                           *)
(***************************************************************************)
C5_AlreadyExistsCarriesPath ==
    \A p \in DOMAIN procs :
        (InitDone(procs[p]) /\ RootFound(p) /\ TargetRepo(p) \in DOMAIN pre[p]) =>
            /\ procs[p].result.kind = "RepoAlreadyExistsError"
            /\ procs[p].result.repo_path = TargetRepo(p)
            /\ procs[p].result.msg.path = TargetRepo(p)
            /\ procs[p].result.msg.text = "Repository already exists at: "
            /\ fs = pre[p]

\* The call found .ugit to be a regular file.
C5_Witness ==
    \E p \in DOMAIN procs :
        /\ InitDone(procs[p])
        /\ RootFound(p)
        /\ TargetRepo(p) \in DOMAIN pre[p]
        /\ pre[p][TargetRepo(p)].type = "file"
        /\ procs[p].result.kind = "RepoAlreadyExistsError"

\* The call found .ugit to be a directory.
C5_WitnessDir ==
    \E p \in DOMAIN procs :
        /\ InitDone(procs[p])
        /\ RootFound(p)
        /\ TargetRepo(p) \in DOMAIN pre[p]
        /\ pre[p][TargetRepo(p)].type = "dir"
        /\ procs[p].result.kind = "RepoAlreadyExistsError"

(***************************************************************************)
(* C6.  Every init_repo call ends either with success and the four layout  *)
(* items established, or with a failure and nothing created, also when a   *)
(* creation step fails with a filesystem error after earlier steps         *)
(* succeeded.                                                              *)
(***************************************************************************)
C6_AllOrNothing ==
    \A p \in DOMAIN procs :
        InitDone(procs[p]) =>
            \/ /\ procs[p].result.kind = "ok"
               /\ IsDir(fs, procs[p].result.value \o <<"objects">>)
               /\ IsDir(fs, procs[p].result.value \o <<"refs", "heads">>)
               /\ IsDir(fs, procs[p].result.value \o <<"refs", "tags">>)
               /\ IsFile(fs, procs[p].result.value \o <<"HEAD">>)
            \/ /\ procs[p].result.kind # "ok"
               /\ fs = pre[p]

(***************************************************************************)
(* C7.  When find_repo_root fails inside init_repo, init_repo ends with    *)
(* that same RepoRootNotFoundError, not wrapped and not converted, and has *)
(* created nothing.                                                        *)
(***************************************************************************)
C7_RootNotFoundPropagates ==
    \A p \in DOMAIN procs :
        (InitDone(procs[p]) /\ ~RootFound(p)) =>
            /\ procs[p].result.kind = "RepoRootNotFoundError"
            /\ procs[p].result.msg.path = StartAbs(procs[p])
            /\ procs[p].result = FindRepoRoot(pre[p], procs[p].start_dir, procs[p].cwd)
            /\ fs = pre[p]

\* The failing call started where another root's repository lies off its chain.
C7_Witness ==
    \E p \in DOMAIN procs :
        /\ InitDone(procs[p])
        /\ ~RootFound(p)
        /\ procs[p].result.kind = "RepoRootNotFoundError"
        /\ \E d \in Dirs : HasMarker(pre[p], d)

(***************************************************************************)
(* C8.  init_repo(start_dir) hands start_dir to find_repo_root and, when   *)
(* it succeeds, returns exactly find_repo_root(start_dir)/.ugit, an        *)
(* absolute path; what it creates lies at and below that path, under the   *)
(* located project root and not under start_dir when the two differ.       *)
(***************************************************************************)
C8_ReturnsRepoUnderLocatedRoot ==
    \A p \in DOMAIN procs :
        (InitDone(procs[p]) /\ procs[p].result.kind = "ok") =>
            /\ RootFound(p)
            /\ procs[p].result.value = TargetRepo(p)
            /\ procs[p].result.value =
                   Join(FindRepoRoot(pre[p], procs[p].start_dir, procs[p].cwd).value, ".ugit")
            /\ IsAbsolute(procs[p].result.value)
            /\ IsDir(fs, procs[p].result.value)
            /\ \A q \in DOMAIN fs \ DOMAIN pre[p] : IsPrefix(TargetRepo(p), q)

\* A successful call whose start directory lies below the project root.
C8_Witness ==
    \E p \in DOMAIN procs :
        /\ InitDone(procs[p])
        /\ procs[p].result.kind = "ok"
        /\ StartAbs(procs[p]) # NearestRoot(pre[p], StartAbs(procs[p]))
        /\ procs[p].start_dir # StartAbs(procs[p])

(***************************************************************************)
(* C9.  As claimed: of two init_repo calls that run concurrently against   *)
(* one project root, one succeeds and the other either ends with           *)
(* RepoAlreadyExistsError or overwrites files the first created; it has no *)
(* other outcome.                                                          *)
(***************************************************************************)
\* Both calls are over, on one project root that had no .ugit when the
\* earlier of them started.
SameRoot(p, q) ==
    /\ InitDone(procs[p]) /\ InitDone(procs[q])
    /\ RootFound(p) /\ RootFound(q)
    /\ TargetRepo(p) = TargetRepo(q)
    /\ (TargetRepo(p) \notin DOMAIN pre[p] \/ TargetRepo(q) \notin DOMAIN pre[q])

C9_AlreadyExistsOrOverwrite ==
    \A p, q \in DOMAIN procs :
        (p # q /\ SameRoot(p, q)) =>
            \E w \in {p, q} : \E l \in {p, q} \ {w} :
                /\ procs[w].result.kind = "ok"
                /\ \/ procs[l].result.kind = "RepoAlreadyExistsError"
                   \/ procs[l].overwrote

(***************************************************************************)
(* C9, amended.  Of two init_repo calls that run concurrently against one  *)
(* project root that has no .ugit yet, exactly one succeeds and the other  *)
(* fails, either with RepoAlreadyExistsError or with the built-in          *)
(* FileExistsError that Path.mkdir raises; neither call overwrites a file. *)
(***************************************************************************)
C9_AlreadyExistsOrFileExists ==
    \A p, q \in DOMAIN procs :
        (p # q /\ SameRoot(p, q)) =>
            /\ \E w \in {p, q} : \E l \in {p, q} \ {w} :
                /\ procs[w].result.kind = "ok"
                /\ procs[l].result.kind \in {"RepoAlreadyExistsError", "FileExistsError"}
            /\ ~procs[p].overwrote
            /\ ~procs[q].overwrote

\* The losing call passed its check and then met the winner's directory.
C9_Witness ==
    \E p, q \in DOMAIN procs :
        /\ p # q
        /\ SameRoot(p, q)
        /\ procs[p].result.kind = "ok"
        /\ procs[q].result.kind = "FileExistsError"

(***************************************************************************)
(* C10.  init_repo only adds paths: in every state of a call, on its       *)
(* success exit and on both failure exits, every path that existed before  *)
(* the call exists with the same type and content.                         *)
(***************************************************************************)
C10_OnlyAddsPaths ==
    \A p \in DOMAIN procs :
        procs[p].op = "init_repo" =>
            \A q \in DOMAIN pre[p] : q \in DOMAIN fs /\ fs[q] = pre[p][q]

\* A successful call in a tree that already held another root's repository.
C10_Witness ==
    \E p \in DOMAIN procs :
        /\ InitDone(procs[p])
        /\ procs[p].result.kind = "ok"
        /\ \E r \in inited : r # procs[p].result.value /\ r \in DOMAIN pre[p]

\* The failure exits: the root not found, and the repository already there.
C10_WitnessFailures ==
    \E p \in DOMAIN procs :
        /\ InitDone(procs[p])
        /\ procs[p].result.kind \in {"RepoRootNotFoundError", "RepoAlreadyExistsError"}
        /\ \E d \in Dirs : Join(d, MARKER) \in DOMAIN pre[p]

(***************************************************************************)
(* C11.  find_repo_root leaves the filesystem as it was at the call,       *)
(* whether it returns a directory or raises RepoRootNotFoundError, on its  *)
(* own and inside init_repo; all it does is probe for the marker file in   *)
(* directories of the start directory's ancestor chain.                    *)
(***************************************************************************)
C11_FindRepoRootReadOnly ==
    \A p \in DOMAIN procs :
        LET fr == procs[p]
        IN  /\ (FindDone(fr) \/ (fr.op = "init_repo" /\ fr.pc = "line73")
                              \/ (InitDone(fr) /\ fr.result.kind = "RepoRootNotFoundError")) =>
                   fs = pre[p]
            /\ fr.op \in {"find_repo_root", "init_repo"} =>
                   \A i \in 1..Len(fr.probes) :
                       \E c \in Ancestors(StartAbs(fr)) : fr.probes[i] = Append(c, "pyproject.toml")

\* A search that returned after several probes, in a tree that holds a
\* repository.
C11_Witness ==
    \E p \in DOMAIN procs :
        /\ FindDone(procs[p])
        /\ procs[p].result.kind = "ok"
        /\ Len(procs[p].probes) >= 2
        /\ inited # {}

\* A search that raised.
C11_WitnessRaised ==
    \E p \in DOMAIN procs :
        /\ FindDone(procs[p])
        /\ procs[p].result.kind = "RepoRootNotFoundError"
        /\ Len(procs[p].probes) >= 2

(***************************************************************************)
(* C12.  Whenever no init_repo call is under way, after any sequence of    *)
(* init_repo calls, successful or failing, every <root>/.ugit/HEAD that    *)
(* exists holds exactly the line "ref: refs/heads/main\n": it is never     *)
(* empty, never truncated, never another ref.                              *)
(***************************************************************************)
C12_HeadAlwaysOneLine ==
    (\A p \in DOMAIN procs : ~Running(procs[p])) =>
        \A d \in Dirs :
            d \o <<".ugit", "HEAD">> \in DOMAIN fs =>
                fs[d \o <<".ugit", "HEAD">>] =
                    [type |-> "file", content |-> <<"ref: refs/heads/main", "\n">>]

(***************************************************************************)
(* C13.  Within one init_repo call the existence check of <root>/.ugit     *)
(* comes before the first creation step; a call whose check found the path *)
(* existing creates nothing and ends with RepoAlreadyExistsError; so what a *)
(* call creates lies at or below a repository path that did not exist when *)
(* the call checked it.                                                    *)
(***************************************************************************)
C13_CheckBeforeCreate ==
    \A p \in DOMAIN procs :
        LET fr == procs[p]
        IN  fr.op = "init_repo" =>
                /\ fr.check = "none" => fr.created = {}
                /\ fr.check = "exists" =>
                       /\ fr.created = {}
                       /\ fr.pc = "done"
                       /\ fr.result.kind = "RepoAlreadyExistsError"
                /\ fr.created # {} => fr.check = "absent"
                /\ \A q \in fr.created : IsPrefix(fr.repo_path, q)
                /\ fr.pc \in {"line76", "line77", "line78", "line79_open", "line79_write"} =>
                       fr.check = "absent"

\* A call whose check found .ugit existing, made by another call that is
\* still creating the layout.
C13_Witness ==
    \E p, q \in DOMAIN procs :
        /\ p # q
        /\ procs[p].op = "init_repo"
        /\ procs[p].check = "exists"
        /\ procs[q].op = "init_repo"
        /\ procs[q].repo_path = procs[p].repo_path
        /\ procs[q].created # {}
        /\ procs[q].pc # "done"

\* A call that passed its check and created paths in a repository directory
\* another call had made in the meantime.
C13_WitnessLate ==
    \E p \in DOMAIN procs :
        /\ procs[p].op = "init_repo"
        /\ procs[p].check = "absent"
        /\ procs[p].created # {}
        /\ procs[p].repo_path \notin procs[p].created

\* The filesystem f without the marker files that lie off the chain of d.
OnChainOnly(f, d) ==
    [q \in {x \in DOMAIN f : (x # <<>> /\ x[Len(x)] = "pyproject.toml") => Parent(x) \in Ancestors(d)} |-> f[q]]

\* Some directory that is neither d nor an ancestor of d holds a marker file.
MarkerOffChain(f, d) == \E c \in Dirs : c \notin Ancestors(d) /\ HasMarker(f, c)

(***************************************************************************)
(* C14.  find_repo_root probes the resolved start directory and then its   *)
(* ancestors, nearest first, and stops at the first that holds the marker  *)
(* file; marker files in descendants or siblings of the start directory or *)
(* of an ancestor make no call succeed and change no result: the result is *)
(* what the call gives on the tree without them.                           *)
(***************************************************************************)
C14_StrictlyUpward ==
    \A p \in DOMAIN procs :
        LET fr == procs[p]
            d == StartAbs(fr)
        IN  FindDone(fr) =>
                /\ Len(fr.probes) >= 1 /\ Len(fr.probes) <= Len(d) + 1
                /\ \A i \in 1..Len(fr.probes) :
                       fr.probes[i] = Append(SubSeq(d, 1, Len(d) + 1 - i), "pyproject.toml")
                /\ \A i \in 1..(Len(fr.probes) - 1) : ~HasMarker(pre[p], Parent(fr.probes[i]))
                /\ fr.result.kind = "ok" =>
                       /\ fr.result.value = Parent(fr.probes[Len(fr.probes)])
                       /\ HasMarker(pre[p], fr.result.value)
                /\ fr.result.kind # "ok" => MarkedAncestors(pre[p], d) = {}
                /\ fr.result = FindRepoRoot(OnChainOnly(pre[p], d), fr.start_dir, fr.cwd)

\* A search that failed although a descendant of its start directory holds a
\* marker file.
C14_Witness ==
    \E p \in DOMAIN procs :
        /\ FindDone(procs[p])
        /\ procs[p].result.kind = "RepoRootNotFoundError"
        /\ \E c \in Dirs :
               /\ HasMarker(pre[p], c)
               /\ IsPrefix(StartAbs(procs[p]), c)

\* A search that went past a sibling's marker file to a farther ancestor.
C14_WitnessSibling ==
    \E p \in DOMAIN procs :
        /\ FindDone(procs[p])
        /\ procs[p].result.kind = "ok"
        /\ Len(procs[p].probes) >= 2
        /\ MarkerOffChain(pre[p], StartAbs(procs[p]))

\* What a call located: the result of find_repo_root, on its own or inside
\* init_repo.
Located(fr) ==
    IF fr.op = "find_repo_root" THEN fr.result
    ELSE IF fr.root # NoPath THEN Returned(fr.root)
    ELSE fr.result

\* Both calls are over and were made with the same start directory.
SameStart(p, q) ==
    /\ procs[p].pc = "done" /\ procs[q].pc = "done"
    /\ procs[p].start_dir = procs[q].start_dir
    /\ procs[p].cwd = procs[q].cwd

(***************************************************************************)
(* C15.  The project root is computed anew on every find_repo_root and     *)
(* init_repo call: of two calls with the same start directory, the later   *)
(* one locates the nearest marked ancestor in the tree as it stands at     *)
(* that call (a marker written or removed in between counts), and two      *)
(* calls on identical trees locate the same root and, being the same       *)
(* operation, give the same result.                                        *)
(***************************************************************************)
C15_RecomputedEveryCall ==
    \A p, q \in DOMAIN procs :
        (p # q /\ SameStart(p, q)) =>
            /\ \A x \in {p, q} :
                   IF MarkedAncestors(pre[x], StartAbs(procs[x])) = {}
                   THEN Located(procs[x]).kind = "RepoRootNotFoundError"
                   ELSE /\ Located(procs[x]).kind = "ok"
                        /\ Located(procs[x]).value = NearestRoot(pre[x], StartAbs(procs[x]))
            /\ pre[p] = pre[q] =>
                   /\ Located(procs[p]) = Located(procs[q])
                   /\ procs[p].op = procs[q].op => procs[p].result = procs[q].result

\* The second call found no root after the first call's marker was removed.
C15_Witness ==
    /\ SameStart(1, 2)
    /\ Located(procs[1]).kind = "ok"
    /\ Located(procs[2]).kind = "RepoRootNotFoundError"

\* The second call found a nearer root, written after the first call.
C15_WitnessNearer ==
    /\ SameStart(1, 2)
    /\ Located(procs[1]).kind = "ok"
    /\ Located(procs[2]).kind = "ok"
    /\ Len(Located(procs[2]).value) > Len(Located(procs[1]).value)

\* Two calls on identical trees.
C15_WitnessSame ==
    /\ SameStart(1, 2)
    /\ pre[1] = pre[2]
    /\ procs[1].op = procs[2].op
    /\ Located(procs[1]).kind = "ok"

\* The text is among the pieces of the output.
Printed(out, text) == \E i \in DOMAIN out : out[i] = text

(***************************************************************************)
(* C16.  Running the command line with the argument init in a project      *)
(* tree exits with a code that tells how init_repo ended: 0, with          *)
(* "Initialized empty ugit repository in:" printed and the repository      *)
(* made, when it succeeded; 1, with "Repository initialization failed:     *)
(* repository already exists" on stderr, when the repository was there.    *)
(***************************************************************************)
C16_InitExitReflectsOutcome ==
    (cli.pc = "exited" /\ cli.argv = <<"init">> /\ MarkedAncestors(fs, Cwd) # {}) =>
        \/ /\ cli.code = 0
           /\ Printed(cli.stdout \o cli.stderr, "Initialized empty ugit repository in:")
           /\ Subtree(fs, Join(NearestRoot(fs, Cwd), ".ugit")) =
                  FreshLayout(Join(NearestRoot(fs, Cwd), ".ugit"))
        \/ /\ cli.code = 1
           /\ Printed(cli.stderr,
                      "Repository initialization failed: repository already exists")
           /\ Join(NearestRoot(fs, Cwd), ".ugit") \in DOMAIN fs

(***************************************************************************)
(* C17.  The command line exits with code 0 when run with no arguments     *)
(* (the help is printed on stdout), with -h or --help (the usage is        *)
(* printed) and with -v or --version ("ugit-diy v<version>" is printed);   *)
(* in none of these cases is anything written to stderr.                   *)
(***************************************************************************)
C17_HelpVersionExitZero ==
    cli.pc = "exited" =>
        /\ cli.argv \in {<<>>, <<"-h">>, <<"--help">>} =>
               /\ cli.code = 0
               /\ cli.stdout # <<>>
               /\ cli.stdout[1] = "usage: ugit [OPTIONS]"
               /\ Printed(cli.stdout, "Global options:")
               /\ cli.stderr = <<>>
        /\ cli.argv \in {<<"-v">>, <<"--version">>} =>
               /\ cli.code = 0
               /\ Len(cli.stdout) = 4
               /\ cli.stdout[1] = "ugit-diy"
               /\ cli.stdout[2] = " v"
               /\ cli.stdout[3] \in {"<metadata version>", "<__version__>"}
               /\ cli.stdout[4] = "\n"
               /\ cli.stderr = <<>>

\* The version was asked for where the distribution is not installed.
C17_Witness ==
    /\ cli.pc = "exited"
    /\ cli.argv = <<"--version">>
    /\ ~cli.installed
    /\ cli.code = 0
    /\ cli.stdout[3] = "<__version__>"

\* No arguments at all.
C17_WitnessNoArgs ==
    /\ cli.pc = "exited"
    /\ cli.argv = <<>>
    /\ cli.code = 0
    /\ cli.stdout # <<>>

(***************************************************************************)
(* C18.  setup_logging always ends with logging configured: whatever step  *)
(* fails (the packaged JSON missing or invalid, the rewrite of the file    *)
(* handler paths, dictConfig, the level override, locating the logs        *)
(* directory), no failure leaves setup_logging; the basicConfig fallback   *)
(* is installed, with root level INFO unless the environment says          *)
(* otherwise, and a warning or exception record about the fallback is      *)
(* logged.                                                                 *)
(***************************************************************************)
C18_AlwaysEndsConfigured ==
    lg.pc \in {"returned", "raised"} =>
        /\ lg.pc = "returned"
        /\ lg.mode \in {"packaged", "fallback"}
        /\ lg.mode = "fallback" =>
               /\ lg.handlers # {}
               /\ lg.env_level = "<unset>" => lg.root_level = "INFO"
               /\ \E i \in DOMAIN lg.records :
                      lg.records[i].msg \in
                          {"Packaged logging.json dictConfig not found or invalid, falling back.",
                           "Invalid packaged logging configuration; using basicConfig."}

(***************************************************************************)
(* C19.  When UGIT_LOG_LEVEL is one of DEBUG, INFO, WARNING, ERROR,        *)
(* CRITICAL, the root logger's level after setup_logging is that level, in *)
(* packaged mode (the override follows dictConfig and wins over the level  *)
(* of the packaged config) and in fallback mode (it is the level given to  *)
(* basicConfig).                                                           *)
(***************************************************************************)
C19_EnvLevelIsRootLevel ==
    (lg.pc = "returned"
     /\ lg.env_level \in {"DEBUG", "INFO", "WARNING", "ERROR", "CRITICAL"}) =>
        /\ lg.mode \in {"packaged", "fallback"}
        /\ lg.root_level = lg.env_level

\* Packaged mode: the environment's level differs from the packaged config's.
C19_Witness ==
    /\ lg.pc = "returned"
    /\ lg.mode = "packaged"
    /\ lg.env_level = "ERROR"
    /\ lg.loaded.root_level = "INFO"
    /\ lg.root_level = "ERROR"

\* Fallback mode.
C19_WitnessFallback ==
    /\ lg.pc = "returned"
    /\ lg.mode = "fallback"
    /\ lg.env_level = "WARNING"
    /\ lg.root_level = "WARNING"

(***************************************************************************)
(* C20.  _apply_repo_local_filename sets the filename of every handler     *)
(* whose class name contains "FileHandler" and that has a filename key to  *)
(* <logs_dir>/<basename of the old filename>, and leaves every other       *)
(* handler entry (no filename key, another class, no mapping) and every    *)
(* other section of the config as it was.                                  *)
(***************************************************************************)
C20_RewritesFileHandlerFilenames ==
    lg.pc = "applied" =>
        /\ lg.config.null = lg.loaded.null
        /\ lg.config.mapping = lg.loaded.mapping
        /\ lg.config.version_ok = lg.loaded.version_ok
        /\ lg.config.handlers_mapping = lg.loaded.handlers_mapping
        /\ lg.config.root_level = lg.loaded.root_level
        /\ DOMAIN lg.config.handlers = DOMAIN lg.loaded.handlers
        /\ \A n \in DOMAIN lg.loaded.handlers :
               LET old == lg.loaded.handlers[n]
                   new == lg.config.handlers[n]
               IN  IF /\ old.mapping
                      /\ \E i \in DOMAIN old.class : old.class[i] = "FileHandler"
                      /\ old.has_filename
                   THEN /\ new.mapping /\ new.has_filename
                        /\ new.class = old.class
                        /\ new.filename =
                               IF old.filename = <<>> THEN lg.logs_dir
                               ELSE Append(lg.logs_dir, old.filename[Len(old.filename)])
                   ELSE new = old

\* A file handler with a path of several components beside a console handler
\* that carries a filename key.
C20_Witness ==
    /\ lg.pc = "applied"
    /\ \E n, k \in DOMAIN lg.loaded.handlers :
           /\ lg.loaded.handlers[n].class = <<"logging.handlers.", "Rotating", "FileHandler">>
           /\ Len(lg.loaded.handlers[n].filename) = 3
           /\ lg.config.handlers[n].filename # lg.loaded.handlers[n].filename
           /\ lg.loaded.handlers[k].class = <<"logging.", "StreamHandler">>
           /\ lg.loaded.handlers[k].has_filename
           /\ lg.config.handlers[k] = lg.loaded.handlers[k]

(***************************************************************************)
(* C21.  In every intermediate and final state of an init_repo call, also  *)
(* when another call runs at the same time, if <repo>/HEAD exists then     *)
(* <repo>/objects, <repo>/refs/heads and <repo>/refs/tags are directories: *)
(* HEAD is written last, after the three directories.                      *)
(***************************************************************************)
C21_HeadAfterDirectories ==
    \A p \in DOMAIN procs :
        LET repo == procs[p].repo_path
        IN  (procs[p].op = "init_repo" /\ procs[p].root # NoPath
             /\ (repo \o <<"HEAD">>) \in DOMAIN fs) =>
                /\ IsDir(fs, repo \o <<"objects">>)
                /\ IsDir(fs, repo \o <<"refs", "heads">>)
                /\ IsDir(fs, repo \o <<"refs", "tags">>)

\* An intermediate state: the call has opened HEAD and not yet written it.
C21_Witness ==
    \E p \in DOMAIN procs :
        /\ procs[p].op = "init_repo"
        /\ procs[p].pc = "line79_write"
        /\ (procs[p].repo_path \o <<"HEAD">>) \in DOMAIN fs
        /\ fs[procs[p].repo_path \o <<"HEAD">>].content = <<>>
        /\ IsDir(fs, procs[p].repo_path \o <<"refs", "tags">>)

\* A final state: the call has returned, HEAD is there.
C21_WitnessFinal ==
    \E p \in DOMAIN procs :
        /\ InitDone(procs[p])
        /\ procs[p].result.kind = "ok"
        /\ (procs[p].repo_path \o <<"HEAD">>) \in DOMAIN fs

\* The records of boot warning w that logger.warning was called for.
EmittedWarnings(w) ==
    {i \in DOMAIN lg.records : lg.records[i].level = "WARNING" /\ lg.records[i].msg = w}

(***************************************************************************)
(* C22.  In setup_logging a queued boot warning is emitted only after      *)
(* logging has been configured, that is when the fallback or dictConfig    *)
(* has installed a handler: no warning is logged before that, none is      *)
(* logged that was not queued, and when setup_logging returns every queued *)
(* warning has been emitted exactly once.                                  *)
(***************************************************************************)
C22_WarningsAfterConfiguration ==
    /\ \A i \in DOMAIN lg.records :
           lg.records[i].level = "WARNING" =>
               /\ lg.records[i].mode \in {"fallback", "packaged"}
               /\ lg.records[i].handlers # {}
               /\ \E j \in DOMAIN lg.boot_warnings : lg.boot_warnings[j] = lg.records[i].msg
    /\ lg.mode = "none" => lg.records = <<>>
    /\ lg.pc = "returned" =>
           \A j \in DOMAIN lg.boot_warnings :
               Cardinality(EmittedWarnings(lg.boot_warnings[j])) = 1

\* setup_logging has returned after it queued a warning and emitted it to the
\* fallback's handler.
C22_Witness ==
    /\ lg.pc = "returned"
    /\ lg.boot_warnings # <<>>
    /\ lg.mode = "fallback"
    /\ \E i \in DOMAIN lg.records :
           /\ lg.records[i].msg = lg.boot_warnings[1]
           /\ lg.records[i].handlers = {"stderr"}

\* setup_logging has returned from the try statement: nothing was queued, and
\* its finally clause emitted nothing.
C22_WitnessNothingQueued ==
    /\ lg.pc = "returned"
    /\ lg.boot_warnings = <<>>
    /\ lg.mode = "fallback"
    /\ lg.records # <<>>

\* The first argument that is -h, --help, -v or --version and stands before
\* any "--" makes the parser print and exit with status 0.
ExitsByOption(argv) ==
    \E i \in DOMAIN argv :
        /\ argv[i] \in {"-h", "--help", "-v", "--version"}
        /\ \A j \in 1..(i - 1) : argv[j] # "--"

C23_WitnessZero ==
    /\ cli.pc = "returned"
    /\ cli.argv = <<"init", "--help">>
    /\ cli.code = 0

\* main(None)
C23_WitnessNoArgv ==
    /\ cli.pc = "returned"
    /\ cli.argv = NoArgv
    /\ cli.code = 0

\* The init_repo calls made so far on repository path r.
CallsOn(r) == {p \in DOMAIN procs : procs[p].op = "init_repo" /\ procs[p].repo_path = r}

(***************************************************************************)
(* C24.  In every interleaving of two or more init_repo calls on one       *)
(* project root that has no .ugit at first, with no crash and no I/O       *)
(* fault, at most one call returns success, and once all the calls are     *)
(* over the four-item layout exists with HEAD equal to                     *)
(* "ref: refs/heads/main\n".                                               *)
(***************************************************************************)
C24_AtMostOneWinnerFullLayout ==
    \A d \in Dirs :
        LET r == d \o <<".ugit">>
        IN  /\ Cardinality({p \in CallsOn(r) : procs[p].pc = "done"
                                                /\ procs[p].result.kind = "ok"}) <= 1
            /\ (CallsOn(r) # {} /\ \A p \in CallsOn(r) : procs[p].pc = "done") =>
                   /\ \E p \in CallsOn(r) : procs[p].result.kind = "ok"
                   /\ IsDir(fs, r \o <<"objects">>)
                   /\ IsDir(fs, r \o <<"refs", "heads">>)
                   /\ IsDir(fs, r \o <<"refs", "tags">>)
                   /\ IsFile(fs, r \o <<"HEAD">>)
                   /\ fs[r \o <<"HEAD">>].content = <<"ref: refs/heads/main", "\n">>
                   /\ DOMAIN Subtree(fs, r) =
                          {r, r \o <<"objects">>, r \o <<"refs">>, r \o <<"refs", "heads">>,
                           r \o <<"refs", "tags">>, r \o <<"HEAD">>}

\* Three calls on one root have all passed the existence check before any of
\* them created the repository directory, and all are over.
C24_Witness ==
    \E d \in Dirs :
        /\ Cardinality(CallsOn(d \o <<".ugit">>)) = 3
        /\ \A p \in CallsOn(d \o <<".ugit">>) :
               /\ procs[p].pc = "done"
               /\ procs[p].check = "absent"
        /\ \E p, q \in CallsOn(d \o <<".ugit">>) :
               /\ p # q
               /\ procs[p].created # {}
               /\ procs[q].created # {}

\* What an init_repo call leaves at r when it is interrupted between its
\* first creation step and the opening of HEAD: the repository directory,
\* some of the layout below it, and no HEAD.
PartialRepo(f, r) ==
    /\ r \in DOMAIN f
    /\ f[r].type = "dir"
    /\ (r \o <<"HEAD">>) \notin DOMAIN f

(***************************************************************************)
(* C25.  When an init_repo call was interrupted by a failing filesystem    *)
(* call after it created at least one path at or below <root>/.ugit and    *)
(* before it wrote HEAD, every later init_repo call on that root ends with *)
(* RepoAlreadyExistsError and changes nothing in any state it passes       *)
(* through: re-running init_repo never completes the layout.               *)
(***************************************************************************)
C25_PartialRepoStaysPartial ==
    \A p \in DOMAIN procs :
        (procs[p].op = "init_repo" /\ RootFound(p) /\ PartialRepo(pre[p], TargetRepo(p))) =>
            /\ fs = pre[p]
            /\ PartialRepo(fs, TargetRepo(p))
            /\ procs[p].created = {}
            /\ procs[p].pc \in {"line73", "done"}
            /\ procs[p].pc = "done" =>
                   /\ procs[p].result.kind = "RepoAlreadyExistsError"
                   /\ procs[p].result.repo_path = TargetRepo(p)

\* A later call on a root where an earlier call was interrupted after it had
\* made refs/heads: the directories are there, HEAD is not.
C25_Witness ==
    \E p \in DOMAIN procs :
        /\ InitDone(procs[p])
        /\ RootFound(p)
        /\ (TargetRepo(p) \o <<"refs", "heads">>) \in DOMAIN pre[p]
        /\ (TargetRepo(p) \o <<"HEAD">>) \notin DOMAIN pre[p]
        /\ procs[p].result.kind = "RepoAlreadyExistsError"

\* The earlier call was interrupted right after it made the repository
\* directory itself.
C25_WitnessFirstStep ==
    \E p \in DOMAIN procs :
        /\ InitDone(procs[p])
        /\ procs[p].result.kind = "OSError"
        /\ procs[p].created = {procs[p].repo_path}

\* The marked ancestors of the call's start directory other than the nearest:
\* the outer project roots.
OuterRoots(p) ==
    MarkedAncestors(pre[p], StartAbs(procs[p])) \ {NearestRoot(pre[p], StartAbs(procs[p]))}

(***************************************************************************)
(* C26.  With nested project roots (an inner directory and one of its      *)
(* ancestors both hold the marker file) init_repo started at or below the  *)
(* inner root checks and creates only <inner>/.ugit: a .ugit under the     *)
(* outer root does not make it end with RepoAlreadyExistsError and is not  *)
(* modified, and the call adds no path outside <inner>/.ugit.              *)
(***************************************************************************)
C26_InnerRootOnly ==
    \A p \in DOMAIN procs :
        (procs[p].op = "init_repo" /\ RootFound(p) /\ OuterRoots(p) # {}) =>
            LET inner == NearestRoot(pre[p], StartAbs(procs[p]))
            IN  /\ procs[p].repo_path = inner \o <<".ugit">>
                /\ \A q \in procs[p].created : IsPrefix(inner \o <<".ugit">>, q)
                /\ \A q \in DOMAIN fs \ DOMAIN pre[p] : IsPrefix(inner \o <<".ugit">>, q)
                /\ \A outer \in OuterRoots(p) :
                       Subtree(fs, outer \o <<".ugit">>) = Subtree(pre[p], outer \o <<".ugit">>)
                /\ (procs[p].pc = "done" /\ (inner \o <<".ugit">>) \notin DOMAIN pre[p]) =>
                       /\ procs[p].result.kind = "ok"
                       /\ procs[p].result.value = inner \o <<".ugit">>
                /\ (procs[p].pc = "done" /\ procs[p].result.kind = "RepoAlreadyExistsError") =>
                       /\ procs[p].result.repo_path = inner \o <<".ugit">>
                       /\ (inner \o <<".ugit">>) \in DOMAIN pre[p]

\* A successful call below the inner root while the outer root already holds
\* a repository.
C26_Witness ==
    \E p \in DOMAIN procs :
        /\ InitDone(procs[p])
        /\ RootFound(p)
        /\ procs[p].result.kind = "ok"
        /\ \E outer \in OuterRoots(p) : (outer \o <<".ugit", "HEAD">>) \in DOMAIN pre[p]
        /\ StartAbs(procs[p]) # NearestRoot(pre[p], StartAbs(procs[p]))

\* The inner root holds a repository and the outer root none: the call ends
\* with RepoAlreadyExistsError and the outer root gets nothing.
C26_WitnessInnerExists ==
    \E p \in DOMAIN procs :
        /\ InitDone(procs[p])
        /\ RootFound(p)
        /\ OuterRoots(p) # {}
        /\ procs[p].result.kind = "RepoAlreadyExistsError"
        /\ \A outer \in OuterRoots(p) : (outer \o <<".ugit">>) \notin DOMAIN fs

====
